---- MODULE Spec2Model ----
\* Model of the monthly backfill (backfill.py) and of the per-snapshot
\* analysis and ledger append (analyze.py).
EXTENDS Integers, Sequences, FiniteSets, TLC

\* ---------------------------------------------------------------- bounds

\* Longest first-parent history of the traversed branch.
MaxCommits == 3
\* Largest report tree, in nodes.
MaxNodes == 4
\* Most appends made to one ledger.
MaxAppends == 3
\* Most rows of the ledger found before the first append.
MaxLedgerRows == 2

\* ------------------------------------------------------ program constants

\* backfill.py:70  for _ in range(2400)
HardCap == 2400
\* backfill.py:85  --max-months default
DefaultMaxMonths == 100

\* -------------------------------------------------------------- dates

Date(y, m, d) == [year |-> y, month |-> m, day |-> d]

\* The value of a variable that holds no date yet.
NoDate == Date(0, 0, 0)

\* datetime.date ordering, a < b.
DateLT(a, b) ==
    \/ a.year < b.year
    \/ a.year = b.year /\ a.month < b.month
    \/ a.year = b.year /\ a.month = b.month /\ a.day < b.day

\* date.replace(day=1)
ReplaceDay1(d) == Date(d.year, d.month, 1)

\* datetime.MINYEAR: dt.date(year, month, day) raises ValueError when
\* year < MINYEAR.
MinYear == 1

\* d's position on the line of calendar months.
MonthIndex(d) == d.year * 12 + (d.month - 1)

\* A step back that keeps the year when it leaves January.
StepBackSameYear(d) ==
    Date(d.year, IF d.month = 1 THEN 12 ELSE d.month - 1, 1)

\* One step of month_starts_descending: the year, month and day handed to
\* dt.date for the first day of the month before d.
StepBack(d) ==
    Date(IF d.month = 1 THEN d.year - 1 ELSE d.year,
         IF d.month = 1 THEN 12 ELSE d.month - 1,
         1)

\* date.isoformat(): the text YYYY-MM-DD, kept as its three fields in order.
IsoFormat(d) == <<d.year, d.month, d.day>>

\* pd.to_datetime on an ISO date text.
ToDatetime(s) == Date(s[1], s[2], s[3])

\* ------------------------------------------------------- report trees

\* A dict with no keys.
EmptyDict == [k \in {} |-> 0]

\* dict.get(key) of a missing key.
NoneVal == -1

\* node["metrics"]: absent (null), an empty object, or an object with fields.
MetricsChoices ==
    { [null |-> TRUE,  obj |-> EmptyDict],
      [null |-> FALSE, obj |-> EmptyDict],
      [null |-> FALSE, obj |-> [lines |-> 10, type_coverage |-> 1, todo_comments |-> 2]],
      [null |-> FALSE, obj |-> [lines |-> 20]] }

RECURSIVE TreesN(_), Forests(_)
\* The report trees with exactly n nodes (paths not yet assigned).
TreesN(n) ==
    IF n = 0 THEN {}
    ELSE { [path |-> <<>>, metrics |-> m, children |-> f] :
             m \in MetricsChoices, f \in Forests(n - 1) }
\* The ordered child lists holding n nodes in all.
Forests(n) ==
    IF n = 0 THEN { <<>> }
    ELSE UNION { { <<t>> \o f : t \in TreesN(k), f \in Forests(n - k) } : k \in 1..n }

RECURSIVE SetPath(_, _), SetPaths(_, _, _)
\* The tree with every node's "path" set to its position below the root.
SetPath(node, p) ==
    [path |-> p, metrics |-> node.metrics, children |-> SetPaths(node.children, p, 1)]
SetPaths(children, p, k) ==
    IF Len(children) = 0 THEN <<>>
    ELSE <<SetPath(Head(children), Append(p, k))>> \o SetPaths(Tail(children), p, k + 1)

\* The well-formed report trees of at most MaxNodes nodes.
ReportTrees == { SetPath(t, <<>>) : t \in UNION { TreesN(n) : n \in 1..MaxNodes } }

\* ------------------------------------------------------- analyze.py

\* dict.get(key)
Get(m, key) == IF key \in DOMAIN m THEN m[key] ELSE NoneVal

\* m = node.get("metrics") or {}
NodeMetrics(node) == IF node.metrics.null THEN EmptyDict ELSE node.metrics.obj

\* bool(m) of a dict m
Truthy(m) == DOMAIN m # {}

\* The row _iter_nodes builds for one node.
Row(node) ==
    [ path          |-> node.path,
      lines         |-> Get(NodeMetrics(node), "lines"),
      type_coverage |-> Get(NodeMetrics(node), "type_coverage"),
      todo_comments |-> Get(NodeMetrics(node), "todo_comments"),
      has_metrics   |-> Truthy(NodeMetrics(node)) ]

RECURSIVE IterNodes(_), IterChildren(_)
\* A traversal that does not descend below a node without metrics.
IterNodesPruned(node) ==
    IF Truthy(NodeMetrics(node)) THEN <<Row(node)>> \o IterChildren(node.children)
    ELSE <<Row(node)>>

\* _iter_nodes: the node's row, then the rows of each child in input order.
IterNodes(node) == <<Row(node)>> \o IterChildren(node.children)
IterChildren(children) ==
    IF Len(children) = 0 THEN <<>>
    ELSE IterNodes(Head(children)) \o IterChildren(Tail(children))

\* df[df["has_metrics"]]
OnlyLeaves(rows) == SelectSeq(rows, LAMBDA r : r.has_metrics)

\* load_report_to_df(path, only_leaves=True)
LoadReportToDf(report) == OnlyLeaves(IterNodes(report))

\* fillna(0.0).astype(int) of one cell
FillNa(v) == IF v = NoneVal THEN 0 ELSE v

\* process_df: lines and todo_comments are zero-filled, type_coverage is not.
ProcessDf(df) ==
    [ k \in 1..Len(df) |->
        [ path          |-> df[k].path,
          lines         |-> FillNa(df[k].lines),
          type_coverage |-> df[k].type_coverage,
          todo_comments |-> FillNa(df[k].todo_comments),
          has_metrics   |-> df[k].has_metrics ] ]

\* Series.max() / Series.min() / Series.sum() over the present values;
\* NoneVal stands for NaN, the result over no values.
SeriesMax(vals) == IF vals = {} THEN NoneVal ELSE CHOOSE v \in vals : \A w \in vals : w <= v
SeriesMin(vals) == IF vals = {} THEN NoneVal ELSE CHOOSE v \in vals : \A w \in vals : v <= w
RECURSIVE SeriesSum(_, _)
SeriesSum(df, k) == IF k > Len(df) THEN 0 ELSE df[k].todo_comments + SeriesSum(df, k + 1)

\* The statistics every aggregate record carries.
FixedStats == {"date", "lines max", "type_coverage min", "todo_comments total"}

\* aggregate_metrics: int() of a NaN statistic raises ValueError.
AggregateMetrics(df, date) ==
    LET linesMax == SeriesMax({ df[k].lines : k \in 1..Len(df) })
        tcMin    == SeriesMin({ df[k].type_coverage : k \in 1..Len(df) } \ {NoneVal})
    IN  IF linesMax = NoneVal \/ tcMin = NoneVal
        THEN [error |-> "ValueError", result |-> EmptyDict]
        ELSE [error |-> "none",
              result |-> ("date" :> date) @@ ("lines max" :> linesMax)
                         @@ ("type_coverage min" :> tcMin)
                         @@ ("todo_comments total" :> SeriesSum(df, 1))]

\* What running cloc can do.
ClocOutcomes == {"python", "other_language", "nonzero_exit", "bad_json", "not_found"}

\* The optional line-count fields.
ClocFields == {"files", "lines blank", "lines comment", "lines code"}

\* The exception raised inside cloc_metrics' try block.
ClocRaises(c) ==
    CASE c = "not_found"    -> "FileNotFoundError"
      [] c = "nonzero_exit" -> "CalledProcessError"
      [] c = "bad_json"     -> "JSONDecodeError"
      [] OTHER              -> "none"

\* except (subprocess.CalledProcessError, json.JSONDecodeError): pass
ClocCaught == {"CalledProcessError", "JSONDecodeError"}

\* cloc_metrics
ClocMetrics(c) ==
    IF ClocRaises(c) \notin ClocCaught \cup {"none"}
    THEN [error |-> ClocRaises(c), result |-> EmptyDict]
    ELSE [error |-> "none",
          result |-> IF c = "python"
                     THEN ("files" :> 3) @@ ("lines blank" :> 4)
                          @@ ("lines comment" :> 5) @@ ("lines code" :> 30)
                     ELSE EmptyDict]

\* analyze.main after the report is flattened, without --hub-repo: the exit
\* status and the rows printed.
AnalyzeRows(rows, date, c) ==
    LET agg == AggregateMetrics(ProcessDf(OnlyLeaves(rows)), date)
        cl  == ClocMetrics(c)
    IN  IF agg.error # "none" THEN [returncode |-> 1, stdout |-> <<>>]
        ELSE IF cl.error # "none" THEN [returncode |-> 1, stdout |-> <<>>]
        ELSE [returncode |-> 0, stdout |-> << cl.result @@ agg.result >>]

\* analyze.main without --hub-repo, run on a report file.
AnalyzeMain(report, date, c) == AnalyzeRows(IterNodes(report), date, c)

\* ------------------------------------------- analyze.py: the ledger

\* A CSV cell: its kind and its value. An integer n is written "n", a float
\* of integral value n is written "n.0", a missing value is written "".
Tok(k, v) == [k |-> k, v |-> v]
EmptyTok == Tok("empty", 0)

\* The columns a record's dict lists, in insertion order.
ColumnOrder == <<"date", "lines max", "files">>
ColumnsOf(row) == SelectSeq(ColumnOrder, LAMBDA c : c \in DOMAIN row)

\* pd.DataFrame(): no columns, no rows.
EmptyFrame == [columns |-> <<>>, rows |-> <<>>]

\* The elements of a sequence.
Range(seq) == { seq[k] : k \in 1..Len(seq) }

\* The dtype pandas gives a column holding cells of these kinds.
Dtype(kinds) ==
    IF kinds # {} /\ kinds \subseteq {"int"} THEN "int64"
    ELSE IF kinds \subseteq {"int", "float", "empty"} THEN "float64"
    ELSE "object"

\* A cell as held in a column of the dtype: an integer in a float64 column is a float.
Cast(tok, dtype) == IF dtype = "float64" /\ tok.k = "int" THEN Tok("float", tok.v) ELSE tok

\* Every column brought to the dtype of its cells.
CastColumns(df) ==
    [ columns |-> df.columns,
      rows    |-> [ r \in 1..Len(df.rows) |->
                      [ c \in Range(df.columns) |->
                          Cast(df.rows[r][c],
                               Dtype({ df.rows[q][c].k : q \in 1..Len(df.rows) })) ] ] ]

\* _download_space_csv_or_empty: a missing file (EntryNotFoundError) and a
\* file without a header (EmptyDataError) give an empty frame.
DownloadSpaceCsvOrEmpty(file) ==
    IF ~file.exists \/ Len(file.columns) = 0 THEN EmptyFrame
    ELSE CastColumns([columns |-> file.columns, rows |-> file.rows])

\* pd.DataFrame([row])
FrameOfRow(row) == [columns |-> ColumnsOf(row), rows |-> << row >>]

\* list(dict.fromkeys([*a, *b])): a, then the elements of b not in a.
OrderedUnion(a, b) == a \o SelectSeq(b, LAMBDA c : c \notin Range(a))

\* df.reindex(columns=cols): missing columns are filled with NaN.
Reindex(df, cols) ==
    [ columns |-> cols,
      rows    |-> [ r \in 1..Len(df.rows) |->
                      [ c \in Range(cols) |->
                          IF c \in DOMAIN df.rows[r] THEN df.rows[r][c] ELSE EmptyTok ] ] ]

\* An emptiness test that holds of every frame.
DfEmptyAlways(df) == TRUE

\* df.empty: no rows or no columns.
DfEmpty(df) == Len(df.rows) = 0 \/ Len(df.columns) = 0

\* pd.concat([a, b], ignore_index=True) of frames with the same columns.
ConcatFrames(a, b) == CastColumns([columns |-> a.columns, rows |-> a.rows \o b.rows])

\* Step 2 of append_metrics_to_hub_csv: the frame written back.
MergeRow(df_existing, row) ==
    LET df_new   == FrameOfRow(row)
        all_cols == OrderedUnion(df_existing.columns, df_new.columns)
    IN  IF DfEmpty(df_existing) THEN Reindex(df_new, all_cols)
        ELSE ConcatFrames(Reindex(df_existing, all_cols), Reindex(df_new, all_cols))

\* Steps 3 and 4: the file the commit leaves in the repository.
ToCsv(df) == [exists |-> TRUE, columns |-> df.columns, rows |-> df.rows]

\* The records appended: a date, a fixed statistic, and the optional file count.
RecordChoices ==
    { ("date" :> Tok("str", d)) @@ ("lines max" :> Tok("int", 20)) : d \in {1, 2} }
    \cup
    { ("date" :> Tok("str", d)) @@ ("lines max" :> Tok("int", 20))
        @@ ("files" :> Tok("int", 3)) : d \in {1, 2} }

\* The rows earlier runs may have left under the given columns.
LedgerRowChoices(cols) ==
    { r \in [ Range(cols) -> { Tok("str", 1), Tok("int", 10), Tok("int", 3), EmptyTok } ] :
        /\ r["date"] = Tok("str", 1)
        /\ r["lines max"] = Tok("int", 10)
        /\ "files" \in DOMAIN r => r["files"] \in { Tok("int", 3), EmptyTok } }

\* The ledgers found before the first append: no file, a file of zero bytes,
\* a header alone, and up to MaxLedgerRows rows.
InitialLedgers ==
    { [exists |-> FALSE, columns |-> <<>>, rows |-> <<>>],
      [exists |-> TRUE,  columns |-> <<>>, rows |-> <<>>] }
    \cup
    UNION { { ToCsv(CastColumns([columns |-> cols, rows |-> rs])) :
                rs \in UNION { [1..n -> LedgerRowChoices(cols)] : n \in 0..MaxLedgerRows } } :
            cols \in { <<"date", "lines max">>, <<"date", "lines max", "files">> } }

\* ------------------------------------------------------- backfill.py

\* --branch default
ArgsBranch == "main"

\* The value of sha when rev-list printed nothing.
NoSha == -1

\* The dates "today" is drawn from.
TodayChoices == { Date(2026, 11, 2), Date(2026, 1, 15) }

\* The commit dates histories are built from (UTC calendar dates).
CommitDateChoices ==
    { Date(2017, 9, 5), Date(2025, 10, 20), Date(2025, 12, 31), Date(2026, 1, 1) }

\* The values of --max-months: the default, 0 (no limit) and a small limit.
MaxMonthsChoices == { DefaultMaxMonths, 0, 2 }

\* First-parent histories, oldest first, with non-decreasing commit dates; a
\* commit's SHA is its position in the history.
Histories ==
    { h \in UNION { [1..n -> CommitDateChoices] : n \in 1..MaxCommits } :
        \A k \in 1..(Len(h) - 1) : ~DateLT(h[k + 1], h[k]) }

\* The report the spec's example gives: a directory without metrics holding
\* two files with metrics.
ExampleReport ==
    [ path |-> <<>>, metrics |-> [null |-> TRUE, obj |-> EmptyDict],
      children |-> <<
        [ path |-> <<1>>, children |-> <<>>,
          metrics |-> [null |-> FALSE,
                       obj |-> [lines |-> 10, type_coverage |-> 1, todo_comments |-> 2]] ],
        [ path |-> <<2>>, children |-> <<>>,
          metrics |-> [null |-> FALSE, obj |-> [lines |-> 20]] ] >> ]

\* A report with no metric-bearing node: one directory.
StructuralReport ==
    [ path |-> <<>>, metrics |-> [null |-> TRUE, obj |-> EmptyDict], children |-> <<>> ]

\* The reports the scanner writes in a backfill run.
ScannerReports == { ExampleReport, StructuralReport }

\* Exit statuses of a git command: success, failure.
GitExit == { 0, 128 }

VARIABLES
    \* the repository and the arguments
    commits, today, max_months, branch_exists, head, pre_run_head,
    \* main()'s locals and position
    pc, start_ref, start_sha, earliest, i, month_start, seen_shas, sha, dfs, report,
    \* what the caller sees
    stdout, error, outcome,
    \* history of the run: the scans made and the snapshots checked out
    scanned, checked_out,
    \* one run of analyze.py: its position, inputs, flattened rows and result
    an_pc, an_report, an_cloc, an_rows, an_result,
    \* the ledger file in the Space, as first found, and the rows appended
    ld_file, ld_original, ld_appended, ld_last,
    \* one call of month_starts_descending: its position, argument, locals
    \* d and starts, the iterations of the for loop begun, and its exception
    ms_pc, ms_today, ms_d, ms_starts, ms_k, ms_error

bfVars == << commits, today, max_months, branch_exists, head, pre_run_head,
             pc, start_ref, start_sha, earliest, i, month_start, seen_shas, sha,
             dfs, report, stdout, error, outcome, scanned, checked_out >>

anVars == << an_pc, an_report, an_cloc, an_rows, an_result >>

ldVars == << ld_file, ld_original, ld_appended, ld_last >>

msVars == << ms_pc, ms_today, ms_d, ms_starts, ms_k, ms_error >>

vars == << bfVars, anVars, ldVars, msVars >>

\* No exception: the pair (exception, command that raised it) when none is pending.
NoError == <<"none", "">>

\* run(cmd, check=...): the exception subprocess.run raises, if any.
Run(cmd, returncode, check) ==
    IF check /\ returncode # 0 THEN <<"CalledProcessError", cmd>> ELSE NoError

\* The scanner run with check left at its default.
ScannerCheckDefault == TRUE

\* The check= argument of the scanner call and of the analyze.py call.
ScannerCheck == FALSE
AnalyzeCheck == TRUE

\* git checkout <sha> / git checkout <branch>: the reference checked out after it.
BranchTip(b) == IF b = ArgsBranch THEN Len(commits) ELSE 0
GitCheckoutSha(s) == [ref |-> "HEAD", sha |-> s]
GitCheckoutBranch(b) == [ref |-> b, sha |-> BranchTip(b)]

\* git_first_commit_on_or_after: the oldest first-parent commit dated on or
\* after the month start, or NoSha. The month start is midnight UTC and the
\* commit dates are UTC dates, so the comparison is one of calendar dates.
FirstCommitOnOrAfter(history, since) ==
    LET shas == { k \in 1..Len(history) : ~DateLT(history[k], since) }
    IN  IF shas = {} THEN NoSha ELSE CHOOSE k \in shas : \A j \in shas : k <= j

\* len(starts) after starts = starts[:max_months]
NumStarts(mm) == IF mm # 0 /\ mm < HardCap THEN mm ELSE HardCap

BackfillInit ==
    /\ today \in TodayChoices
    /\ commits \in Histories
    /\ max_months \in MaxMonthsChoices
    /\ head \in { GitCheckoutBranch(ArgsBranch), GitCheckoutBranch("dev"), GitCheckoutSha(1) }
    /\ branch_exists \in (IF head.ref = ArgsBranch THEN {TRUE} ELSE BOOLEAN)
    /\ pre_run_head = head
    /\ pc = "capture"
    /\ start_ref = "unset" /\ start_sha = NoSha
    /\ earliest = NoDate /\ i = 0 /\ month_start = NoDate
    /\ seen_shas = {} /\ sha = NoSha /\ dfs = <<>> /\ report = StructuralReport
    /\ stdout = <<>> /\ error = NoError /\ outcome = "running"
    /\ scanned = <<>> /\ checked_out = <<>>

\* An exception that leaves main(): outside the try block nothing runs after
\* it, inside the try block the finally clause runs first.
RaiseOutsideTry(e) == error' = e /\ outcome' = "raised" /\ pc' = "done"
RaiseInsideTry(e) == error' = e /\ outcome' = outcome /\ pc' = "finally"

\* start_ref, start_sha = git_current_ref(repo)
CaptureRef ==
    /\ pc = "capture"
    /\ start_ref' = head.ref /\ start_sha' = head.sha
    /\ pc' = "verify"
    /\ UNCHANGED << anVars, ldVars, msVars, commits, today, max_months, branch_exists, head, pre_run_head,
                    earliest, i, month_start, seen_shas, sha, dfs, report,
                    stdout, error, outcome, scanned, checked_out >>

\* git show-ref --verify refs/heads/<branch>; sys.exit(2) when it fails.
VerifyBranch ==
    /\ pc = "verify"
    /\ IF branch_exists
       THEN pc' = "checkout_branch" /\ UNCHANGED << error, outcome >>
       ELSE pc' = "done" /\ outcome' = "exit2" /\ error' = <<"SystemExit", "sys.exit">>
    /\ UNCHANGED << anVars, ldVars, msVars, commits, today, max_months, branch_exists, head, pre_run_head,
                    start_ref, start_sha, earliest, i, month_start, seen_shas, sha,
                    dfs, report, stdout, scanned, checked_out >>

\* run(["git", "checkout", "--quiet", args.branch])
CheckoutBranch ==
    /\ pc = "checkout_branch"
    /\ \E rc \in GitExit :
         IF Run("git checkout", rc, TRUE) # NoError
         THEN RaiseOutsideTry(Run("git checkout", rc, TRUE)) /\ head' = head
         ELSE head' = GitCheckoutBranch(ArgsBranch) /\ pc' = "earliest"
              /\ UNCHANGED << error, outcome >>
    /\ UNCHANGED << anVars, ldVars, msVars, commits, today, max_months, branch_exists, pre_run_head,
                    start_ref, start_sha, earliest, i, month_start, seen_shas, sha,
                    dfs, report, stdout, scanned, checked_out >>

\* earliest = git_first_commit_date(...); starts = month_starts_descending()[:max_months];
\* dfs = []; seen_shas = set()
EarliestDate ==
    /\ pc = "earliest"
    /\ \E rc \in GitExit :
         IF Run("git show", rc, TRUE) # NoError
         THEN RaiseOutsideTry(Run("git show", rc, TRUE))
              /\ UNCHANGED << earliest, i, month_start >>
         ELSE /\ earliest' = commits[1]
              /\ i' = 0 /\ month_start' = ReplaceDay1(today)
              /\ pc' = "loop"
              /\ UNCHANGED << error, outcome >>
    /\ UNCHANGED << anVars, ldVars, msVars, commits, today, max_months, branch_exists, head, pre_run_head,
                    start_ref, start_sha, seen_shas, sha, dfs, report, stdout,
                    scanned, checked_out >>

\* continue: the for loop takes the next month start. starts[i] is reached
\* from the first day of today's month by i steps of month_starts_descending.
Continue ==
    /\ i' = i + 1 /\ month_start' = StepBack(month_start) /\ pc' = "loop"

\* The for loop has run through all of starts.
LoopExhausted ==
    /\ pc = "loop" /\ i >= NumStarts(max_months)
    /\ pc' = "output"
    /\ UNCHANGED << anVars, ldVars, msVars, commits, today, max_months, branch_exists, head, pre_run_head,
                    start_ref, start_sha, earliest, i, month_start, seen_shas, sha,
                    dfs, report, stdout, error, outcome, scanned, checked_out >>

\* if month_start < earliest.replace(day=1): break
LoopBreak ==
    /\ pc = "loop" /\ i < NumStarts(max_months)
    /\ DateLT(month_start, ReplaceDay1(earliest))
    /\ pc' = "output"
    /\ UNCHANGED << anVars, ldVars, msVars, commits, today, max_months, branch_exists, head, pre_run_head,
                    start_ref, start_sha, earliest, i, month_start, seen_shas, sha,
                    dfs, report, stdout, error, outcome, scanned, checked_out >>

\* if not sha or sha in seen_shas: continue
LoopSkip ==
    /\ pc = "loop" /\ i < NumStarts(max_months)
    /\ ~DateLT(month_start, ReplaceDay1(earliest))
    /\ LET s == FirstCommitOnOrAfter(commits, month_start)
       IN  s = NoSha \/ s \in seen_shas
    /\ Continue
    /\ UNCHANGED << anVars, ldVars, msVars, commits, today, max_months, branch_exists, head, pre_run_head,
                    start_ref, start_sha, earliest, seen_shas, sha,
                    dfs, report, stdout, error, outcome, scanned, checked_out >>

\* seen_shas.add(sha)
LoopSelect ==
    /\ pc = "loop" /\ i < NumStarts(max_months)
    /\ ~DateLT(month_start, ReplaceDay1(earliest))
    /\ LET s == FirstCommitOnOrAfter(commits, month_start)
       IN  /\ s # NoSha /\ s \notin seen_shas
           /\ sha' = s /\ seen_shas' = seen_shas \cup {s}
    /\ pc' = "checkout"
    /\ UNCHANGED << anVars, ldVars, msVars, commits, today, max_months, branch_exists, head, pre_run_head,
                    start_ref, start_sha, earliest, i, month_start,
                    dfs, report, stdout, error, outcome, scanned, checked_out >>

\* run(["git", "checkout", "--quiet", sha])
CheckoutSnapshot ==
    /\ pc = "checkout"
    /\ \E rc \in GitExit :
         IF Run("git checkout", rc, TRUE) # NoError
         THEN RaiseInsideTry(Run("git checkout", rc, TRUE)) /\ UNCHANGED << head, checked_out >>
         ELSE /\ head' = GitCheckoutSha(sha)
              /\ checked_out' = Append(checked_out, sha)
              /\ pc' = "scan"
              /\ UNCHANGED << error, outcome >>
    /\ UNCHANGED << anVars, ldVars, msVars, commits, today, max_months, branch_exists, pre_run_head,
                    start_ref, start_sha, earliest, i, month_start, seen_shas, sha,
                    dfs, report, stdout, scanned >>

\* The same test with the break turned into a continue.
OnScannerExitContinue(returncode) == IF returncode # 0 THEN "continue" ELSE "analyze"

\* if cp_report.returncode != 0: ... break
OnScannerExit(returncode) == IF returncode # 0 THEN "break" ELSE "analyze"

\* cp_report = run([python, "main.py", ...], check=False) and the test of its
\* exit status; the error message looks the commit's date up.
RunScanner ==
    /\ pc = "scan"
    /\ \E rc \in {0, 1}, rep \in ScannerReports, grc \in GitExit :
         /\ rc # 0 => rep = report
         /\ ~(rc # 0 /\ Run("main.py", rc, ScannerCheck) = NoError /\ OnScannerExit(rc) = "break")
              => grc = 0
         /\ scanned' = Append(scanned, [sha |-> sha, returncode |-> rc, report |-> rep])
         /\ report' = rep
         /\ IF Run("main.py", rc, ScannerCheck) # NoError
            THEN RaiseInsideTry(Run("main.py", rc, ScannerCheck)) /\ UNCHANGED << i, month_start >>
            ELSE CASE OnScannerExit(rc) = "break" ->
                        /\ IF Run("git show", grc, TRUE) # NoError
                           THEN RaiseInsideTry(Run("git show", grc, TRUE))
                           ELSE pc' = "output" /\ UNCHANGED << error, outcome >>
                        /\ UNCHANGED << i, month_start >>
                   [] OnScannerExit(rc) = "analyze" ->
                        /\ pc' = "analyze"
                        /\ UNCHANGED << error, outcome, i, month_start >>
                   [] OTHER ->
                        /\ Continue
                        /\ UNCHANGED << error, outcome >>
    /\ UNCHANGED << anVars, ldVars, msVars, commits, today, max_months, branch_exists, head, pre_run_head,
                    start_ref, start_sha, earliest, seen_shas, sha,
                    dfs, stdout, checked_out >>

\* commit_dt = git_commit_date(repo, sha).date().isoformat();
\* cp_agg = run([python, "analyze.py", ..., "--date", commit_dt]);
\* if not csv_text: continue; dfs.append(pd.read_csv(...))
RunAnalyze ==
    /\ pc = "analyze"
    /\ \E grc \in GitExit, c \in ClocOutcomes :
         /\ grc # 0 => c = "python"
         /\ IF Run("git show", grc, TRUE) # NoError
            THEN RaiseInsideTry(Run("git show", grc, TRUE)) /\ UNCHANGED << i, month_start, dfs >>
            ELSE LET cp == AnalyzeMain(report, IsoFormat(commits[sha]), c)
                 IN  IF Run("analyze.py", cp.returncode, AnalyzeCheck) # NoError
                     THEN /\ RaiseInsideTry(Run("analyze.py", cp.returncode, AnalyzeCheck))
                          /\ UNCHANGED << i, month_start, dfs >>
                     ELSE /\ dfs' = IF Len(cp.stdout) = 0 THEN dfs
                                    ELSE Append(dfs, cp.stdout)
                          /\ Continue
                          /\ UNCHANGED << error, outcome >>
    /\ UNCHANGED << anVars, ldVars, msVars, commits, today, max_months, branch_exists, head, pre_run_head,
                    start_ref, start_sha, earliest, seen_shas, sha,
                    report, stdout, scanned, checked_out >>

RECURSIVE Concat(_)
\* pd.concat(dfs, ignore_index=True): the rows of the frames, in list order.
Concat(frames) ==
    IF Len(frames) = 0 THEN <<>> ELSE Head(frames) \o Concat(Tail(frames))

\* out["date"] = pd.to_datetime(out["date"])
DateToDatetime(df) == [ k \in 1..Len(df) |-> [df[k] EXCEPT !["date"] = ToDatetime(@)] ]

\* out["date"] = out["date"].dt.date.astype(str)
DateToStr(df) == [ k \in 1..Len(df) |-> [df[k] EXCEPT !["date"] = IsoFormat(@)] ]

\* The frame left in concatenation order.
SortValuesSkipped(df) == { df }

\* out.sort_values("date").reset_index(drop=True): the default sort is not
\* stable, so rows of equal date may come out in any order.
SortValues(df) ==
    { [ k \in 1..Len(df) |-> df[p[k]] ] :
        p \in { q \in [1..Len(df) -> 1..Len(df)] :
                  /\ \A a, b \in 1..Len(df) : a # b => q[a] # q[b]
                  /\ \A a \in 1..(Len(df) - 1) :
                       ~DateLT(df[q[a + 1]]["date"], df[q[a]]["date"]) } }

\* if not dfs: print("no data collected"); return
OutputNoData ==
    /\ pc = "output" /\ Len(dfs) = 0
    /\ pc' = "finally"
    /\ UNCHANGED << anVars, ldVars, msVars, commits, today, max_months, branch_exists, head, pre_run_head,
                    start_ref, start_sha, earliest, i, month_start, seen_shas, sha,
                    dfs, report, stdout, error, outcome, scanned, checked_out >>

\* out = pd.concat(dfs); sort by date; sys.stdout.write(out.to_csv(index=False))
OutputSeries ==
    /\ pc = "output" /\ Len(dfs) > 0
    /\ \E out \in SortValues(DateToDatetime(Concat(dfs))) :
         stdout' = DateToStr(out)
    /\ pc' = "finally"
    /\ UNCHANGED << anVars, ldVars, msVars, commits, today, max_months, branch_exists, head, pre_run_head,
                    start_ref, start_sha, earliest, i, month_start, seen_shas, sha,
                    dfs, report, error, outcome, scanned, checked_out >>

\* finally: check the starting reference out again (check=False), then
\* return or let the pending exception go on. The reference was checked out
\* when the run began, and checking it out again is taken to succeed.
Finally ==
    /\ pc = "finally"
    /\ head' = IF start_ref = "HEAD" THEN GitCheckoutSha(start_sha)
               ELSE GitCheckoutBranch(start_ref)
    /\ outcome' = IF error = NoError THEN "returned" ELSE "raised"
    /\ pc' = "done"
    /\ UNCHANGED << anVars, ldVars, msVars, commits, today, max_months, branch_exists, pre_run_head,
                    start_ref, start_sha, earliest, i, month_start, seen_shas, sha,
                    dfs, report, stdout, error, scanned, checked_out >>

BackfillNext ==
    \/ CaptureRef
    \/ VerifyBranch
    \/ CheckoutBranch
    \/ EarliestDate
    \/ LoopExhausted
    \/ LoopBreak
    \/ LoopSkip
    \/ LoopSelect
    \/ CheckoutSnapshot
    \/ RunScanner
    \/ RunAnalyze
    \/ OutputNoData
    \/ OutputSeries
    \/ Finally

\* ------------------------------------------------- one run of analyze.py

\* The --date argument of the run.
ArgsDate == IsoFormat(Date(2026, 1, 1))

\* No result yet.
NoResult == [returncode |-> -1, stdout |-> <<>>]

AnalyzeStart(reports) ==
    /\ an_pc = "start" /\ an_report \in reports /\ an_cloc = "unset"
    /\ an_rows = <<>> /\ an_result = NoResult

\* rows = list(_iter_nodes(data))
AnalyzeLoad ==
    /\ an_pc = "start"
    /\ an_rows' = IterNodes(an_report)
    /\ an_pc' = "loaded"
    /\ UNCHANGED << bfVars, ldVars, msVars, an_report, an_cloc, an_result >>

\* The rest of main(): filter, process_df, aggregate_metrics, cloc_metrics, print.
AnalyzeFinish ==
    /\ an_pc = "loaded"
    /\ \E c \in ClocOutcomes :
         /\ an_cloc' = c
         /\ an_result' = AnalyzeRows(an_rows, ArgsDate, c)
    /\ an_pc' = "exited"
    /\ UNCHANGED << bfVars, ldVars, msVars, an_report, an_rows >>

\* ------------------------------------------------- appends to the ledger

LedgerStart(files) ==
    /\ ld_file \in files /\ ld_original = ld_file
    /\ ld_appended = <<>> /\ ld_last = "none"

\* append_metrics_to_hub_csv, the commit made.
LedgerAppend ==
    /\ Len(ld_appended) < MaxAppends
    /\ \E row \in RecordChoices :
         /\ ld_file' = ToCsv(MergeRow(DownloadSpaceCsvOrEmpty(ld_file), row))
         /\ ld_appended' = Append(ld_appended, row)
    /\ ld_last' = "committed"
    /\ UNCHANGED << bfVars, anVars, msVars, ld_original >>

\* append_metrics_to_hub_csv when the download or the commit raises: nothing
\* is written.
LedgerAppendFails ==
    /\ Len(ld_appended) < MaxAppends
    /\ ld_last' = "RemoteStoreError"
    /\ UNCHANGED << bfVars, anVars, msVars, ld_file, ld_original, ld_appended >>

\* ----------------------------------- one call of month_starts_descending

\* The dates the function is called with: the two of the backfill runs, a
\* leap day, the last day of year 200, a day of January 201 and the first
\* date there is.
MonthsTodayChoices ==
    TodayChoices \cup { Date(2024, 2, 29), Date(201, 1, 31), Date(200, 12, 31),
                        Date(MinYear, 1, 1) }

MonthsStart(todays) ==
    /\ ms_pc = "start" /\ ms_today \in todays /\ ms_d = NoDate
    /\ ms_starts = <<>> /\ ms_k = 0 /\ ms_error = NoError

\* d = today.replace(day=1); starts = []
MonthsEnter ==
    /\ ms_pc = "start"
    /\ ms_d' = ReplaceDay1(ms_today)
    /\ ms_pc' = "loop"
    /\ UNCHANGED << bfVars, anVars, ldVars, ms_today, ms_starts, ms_k, ms_error >>

\* One iteration of the for loop: append d, then build the date a month back.
MonthsStep ==
    /\ ms_pc = "loop" /\ ms_k < HardCap
    /\ StepBack(ms_d).year >= MinYear
    /\ ms_starts' = Append(ms_starts, ms_d)
    /\ ms_d' = StepBack(ms_d)
    /\ ms_k' = ms_k + 1
    /\ UNCHANGED << bfVars, anVars, ldVars, ms_pc, ms_today, ms_error >>

\* The iteration in which dt.date is handed a year below MINYEAR: d has been
\* appended, ValueError leaves the function and nothing is returned.
MonthsStepRaises ==
    /\ ms_pc = "loop" /\ ms_k < HardCap
    /\ StepBack(ms_d).year < MinYear
    /\ ms_starts' = Append(ms_starts, ms_d)
    /\ ms_k' = ms_k + 1
    /\ ms_error' = <<"ValueError", "dt.date">>
    /\ ms_pc' = "raised"
    /\ UNCHANGED << bfVars, anVars, ldVars, ms_today, ms_d >>

\* range(2400) is used up: return starts
MonthsReturn ==
    /\ ms_pc = "loop" /\ ms_k = HardCap
    /\ ms_pc' = "returned"
    /\ UNCHANGED << bfVars, anVars, ldVars, ms_today, ms_d, ms_starts, ms_k, ms_error >>

\* ------------------------------------------------------- specifications

\* A backfill run; no analysis of its own and no ledger is in play.
Init ==
    /\ BackfillInit
    /\ AnalyzeStart({StructuralReport})
    /\ LedgerStart({[exists |-> FALSE, columns |-> <<>>, rows |-> <<>>]})
    /\ MonthsStart({Date(2026, 1, 15)})
Next == BackfillNext
Spec == Init /\ [][Next]_vars

\* The state of a backfill that is not run.
BackfillIdle ==
    /\ today = Date(2026, 1, 15) /\ commits = << Date(2026, 1, 1) >>
    /\ max_months = DefaultMaxMonths
    /\ head = GitCheckoutBranch(ArgsBranch) /\ branch_exists = TRUE
    /\ pre_run_head = head
    /\ pc = "idle"
    /\ start_ref = "unset" /\ start_sha = NoSha
    /\ earliest = NoDate /\ i = 0 /\ month_start = NoDate
    /\ seen_shas = {} /\ sha = NoSha /\ dfs = <<>> /\ report = StructuralReport
    /\ stdout = <<>> /\ error = NoError /\ outcome = "running"
    /\ scanned = <<>> /\ checked_out = <<>>

\* One run of analyze.py on any report tree.
InitAnalyze ==
    /\ BackfillIdle
    /\ AnalyzeStart(ReportTrees)
    /\ LedgerStart({[exists |-> FALSE, columns |-> <<>>, rows |-> <<>>]})
    /\ MonthsStart({Date(2026, 1, 15)})
NextAnalyze == AnalyzeLoad \/ AnalyzeFinish
SpecAnalyze == InitAnalyze /\ [][NextAnalyze]_vars

\* A single writer appending to a ledger.
InitLedger ==
    /\ BackfillIdle
    /\ AnalyzeStart({StructuralReport})
    /\ LedgerStart(InitialLedgers)
    /\ MonthsStart({Date(2026, 1, 15)})
NextLedger == LedgerAppend \/ LedgerAppendFails
SpecLedger == InitLedger /\ [][NextLedger]_vars

\* One call of month_starts_descending with any of the dates.
InitMonths ==
    /\ BackfillIdle
    /\ AnalyzeStart({StructuralReport})
    /\ LedgerStart({[exists |-> FALSE, columns |-> <<>>, rows |-> <<>>]})
    /\ MonthsStart(MonthsTodayChoices)
NextMonths == MonthsEnter \/ MonthsStep \/ MonthsStepRaises \/ MonthsReturn
SpecMonths == InitMonths /\ [][NextMonths]_vars

\* ------------------------------------------------- properties of the backfill

\* Some scan of this run exited non-zero.
ScanFailed == \E k \in 1..Len(scanned) : scanned[k].returncode # 0

\* The snapshots whose scan succeeded.
ScannedOk == { scanned[k].sha : k \in { j \in 1..Len(scanned) : scanned[j].returncode = 0 } }

\* Snapshot k of the run was scanned and its report has no metric-bearing node.
EmptySnapshot(k) ==
    scanned[k].returncode = 0 /\ Len(LoadReportToDf(scanned[k].report)) = 0

\* C1: once the pre-run reference is captured, every way the run ends leaves
\* the repository checked out to that reference.
C1_RestoredOnEveryExit ==
    pc = "done" /\ start_ref # "unset" => head = pre_run_head

\* C2: after a non-zero scanner exit no commit is checked out or scanned, no
\* record is collected, and the checked-out reference changes only by the
\* restoring checkout.
C2_AbortAfterScannerFailure ==
    [][ ScanFailed =>
          /\ checked_out' = checked_out
          /\ scanned' = scanned
          /\ dfs' = dfs
          /\ (head' # head => pc = "finally" /\ head' = pre_run_head) ]_vars

\* C2 witness: a run ended after a scanner failure that left the earliest
\* commit's month unvisited although no limit on months was set.
C2_Witness ==
    /\ pc = "done" /\ ScanFailed /\ max_months = 0
    /\ Len(checked_out) >= 2
    /\ 1 \notin seen_shas
    /\ head = pre_run_head /\ head # GitCheckoutSha(sha)

C4_EmptySnapshotSkipped ==
    ( /\ pc = "done"
      /\ \E k \in 1..Len(scanned) : EmptySnapshot(k)
      /\ ~ScanFailed
      /\ error[2] \notin {"git show", "git checkout"} )
    => /\ outcome = "returned"
       /\ Len(stdout) = Cardinality({ k \in 1..Len(scanned) : ~EmptySnapshot(k) })

\* C5: the snapshots checked out are pairwise distinct, and a repository with
\* a single commit yields exactly one snapshot (here: under the default
\* options, in a run that ends normally).
C5_NoCommitTwiceSingleCommitOnce ==
    /\ \A a, b \in 1..Len(checked_out) : a # b => checked_out[a] # checked_out[b]
    /\ ( pc = "done" /\ outcome = "returned" /\ Len(commits) = 1
          /\ max_months = DefaultMaxMonths
          => Len(checked_out) = 1 )

\* C6: in a run that ends normally under the default options, every calendar
\* month that holds a commit has its snapshot, the first commit of that month.
C6_EveryMonthWithCommitSampled ==
    ( pc = "done" /\ outcome = "returned" /\ ~ScanFailed
      /\ max_months = DefaultMaxMonths )
    => \A k \in 1..Len(commits) :
          \E a \in 1..Len(checked_out) :
             checked_out[a] = FirstCommitOnOrAfter(commits, ReplaceDay1(commits[k]))

\* C7: the series written is ordered by date ascending and holds exactly one
\* record per analysed snapshot, dated with the commit's own date, after a
\* normal completion and after a scanner-failure abort alike.
C7_OutputSortedByCommitDate ==
    pc = "done" /\ outcome = "returned" =>
        /\ \A a \in 1..(Len(stdout) - 1) :
              ~DateLT(ToDatetime(stdout[a + 1]["date"]), ToDatetime(stdout[a]["date"]))
        /\ Len(stdout) = Cardinality(ScannedOk)
        /\ \A s \in ScannedOk :
              \E a \in 1..Len(stdout) : stdout[a]["date"] = IsoFormat(commits[s])
        /\ \A a \in 1..Len(stdout) :
              \E s \in ScannedOk : stdout[a]["date"] = IsoFormat(commits[s])

\* C7 witness: after a scanner-failure abort two records of different dates
\* are written, in the reverse of the order they were collected in.
C7_Witness ==
    /\ pc = "done" /\ outcome = "returned" /\ ScanFailed
    /\ Len(stdout) = 2 /\ Len(dfs) = 2
    /\ stdout[1]["date"] = dfs[2][1]["date"]
    /\ stdout[1]["date"] # stdout[2]["date"]
    /\ stdout[1]["date"] # IsoFormat(ReplaceDay1(ToDatetime(stdout[1]["date"])))

\* ------------------------------------------------- properties of analyze.py

RECURSIVE NodePaths(_)
\* The paths of the nodes of a tree.
NodePaths(node) ==
    {node.path} \cup UNION { NodePaths(node.children[k]) : k \in 1..Len(node.children) }

RECURSIVE NodeAt(_, _)
\* The node found by going down from node along the child positions in p.
NodeAt(node, p) ==
    IF Len(p) = 0 THEN node ELSE NodeAt(node.children[Head(p)], Tail(p))

\* p is a proper prefix of q.
ProperPrefix(p, q) == Len(p) < Len(q) /\ SubSeq(q, 1, Len(p)) = p

\* The node at p comes before the node at q in pre-order.
PathBefore(p, q) ==
    \/ ProperPrefix(p, q)
    \/ \E k \in 1..Len(p) :
         /\ k <= Len(q)
         /\ SubSeq(p, 1, k - 1) = SubSeq(q, 1, k - 1)
         /\ p[k] < q[k]

\* Flattening emitted one row per node of the report, in pre-order.
OneRowPerNodeInPreOrder ==
    /\ Len(an_rows) = Cardinality(NodePaths(an_report))
    /\ { an_rows[a].path : a \in 1..Len(an_rows) } = NodePaths(an_report)
    /\ \A a, b \in 1..Len(an_rows) : a < b => PathBefore(an_rows[a].path, an_rows[b].path)

\* C9 as stated: one row per node in pre-order, and has_metrics is true
\* exactly when the node carries a metrics object.
C9_FlattenMetricsObjectPresent ==
    an_pc # "start" =>
        /\ OneRowPerNodeInPreOrder
        /\ \A a \in 1..Len(an_rows) :
             an_rows[a].has_metrics <=> ~NodeAt(an_report, an_rows[a].path).metrics.null

\* C9 amended: one row per node in pre-order, and has_metrics is true exactly
\* when the node carries a metrics object that is not empty.
C9_FlattenMetricsObjectNonEmpty ==
    an_pc # "start" =>
        /\ OneRowPerNodeInPreOrder
        /\ \A a \in 1..Len(an_rows) :
             an_rows[a].has_metrics <=>
                 /\ ~NodeAt(an_report, an_rows[a].path).metrics.null
                 /\ DOMAIN NodeAt(an_report, an_rows[a].path).metrics.obj # {}

\* C9 witness: a flattened report in which a node without a metrics object is
\* followed by a descendant with metrics, and some node has an empty metrics
\* object.
C9_Witness ==
    /\ an_pc # "start"
    /\ \E a, b \in 1..Len(an_rows) :
         /\ a < b /\ ProperPrefix(an_rows[a].path, an_rows[b].path)
         /\ NodeAt(an_report, an_rows[a].path).metrics.null
         /\ an_rows[b].has_metrics
    /\ \E c \in 1..Len(an_rows) :
         /\ ~NodeAt(an_report, an_rows[c].path).metrics.null
         /\ ~an_rows[c].has_metrics

\* C10: whatever the line counter does, an analysis whose aggregation succeeds
\* exits with status 0 and prints one record with every fixed statistic, and
\* without the line-count fields unless the counter reported Python.
C10_LineCounterNeverFatal ==
    ( /\ an_pc = "exited"
      /\ AggregateMetrics(ProcessDf(OnlyLeaves(an_rows)), ArgsDate).error = "none" )
    => /\ an_result.returncode = 0
       /\ Len(an_result.stdout) = 1
       /\ FixedStats \subseteq DOMAIN an_result.stdout[1]
       /\ (an_cloc # "python" => DOMAIN an_result.stdout[1] \cap ClocFields = {})

\* ------------------------------------------------- properties of the ledger

\* The value a cell stands for: the float n.0 and the integer n are the same number.
CellValue(tok) == IF tok.k = "float" THEN Tok("int", tok.v) ELSE tok

\* After n appends to a ledger of k rows the file has k + n rows: the first k
\* are the rows first found, in order, the others the appended records in
\* call order, cell for cell of the same value; a cell of a column the row
\* does not have is empty. Same(a, b) says when cell a of the file counts as
\* cell b of a row first found.
LedgerKeeps(Same(_, _)) ==
    LET k == Len(ld_original.rows)
        n == Len(ld_appended)
    IN  /\ n = 0 => ld_file = ld_original
        /\ n > 0 =>
             /\ Len(ld_file.rows) = k + n
             /\ Range(ld_original.columns) \subseteq Range(ld_file.columns)
             /\ \A r \in 1..k : \A c \in Range(ld_file.columns) :
                  Same(ld_file.rows[r][c],
                       IF c \in Range(ld_original.columns)
                       THEN ld_original.rows[r][c] ELSE EmptyTok)
             /\ \A j \in 1..n :
                  /\ DOMAIN ld_appended[j] \subseteq Range(ld_file.columns)
                  /\ \A c \in Range(ld_file.columns) :
                       CellValue(ld_file.rows[k + j][c]) =
                           CellValue(IF c \in DOMAIN ld_appended[j]
                                     THEN ld_appended[j][c] ELSE EmptyTok)

\* C8 as stated: every append keeps the existing rows in place with their
\* cells unchanged as written, and adds one row at the end.
C8_RowsKeptAsWritten == LedgerKeeps(LAMBDA a, b : a = b)

\* C8 amended: every append keeps the existing rows in place with the values
\* of their cells unchanged, and adds one row at the end; an integer cell may
\* be rewritten as the float of the same value.
C8_RowsKeptByValue == LedgerKeeps(LAMBDA a, b : CellValue(a) = CellValue(b))

\* C8 witness: two records of the same date appended to a ledger that had a
\* row, the appends having introduced a column.
C8_Witness ==
    /\ Len(ld_original.rows) >= 1 /\ Len(ld_appended) >= 2
    /\ ld_appended[1]["date"] = ld_appended[2]["date"]
    /\ Len(ld_file.columns) > Len(ld_original.columns)
    /\ Len(ld_file.rows) = Len(ld_original.rows) + Len(ld_appended)

\* ------------------------------- properties of month_starts_descending

\* The list built so far starts at the first day of today's month, and each
\* element is the first day of the calendar month just before the one ahead
\* of it: nothing skipped, nothing repeated, strictly descending.
MonthsChain ==
    /\ ms_k <= HardCap /\ Len(ms_starts) = ms_k
    /\ ms_k >= 1 =>
          ms_starts[1] = Date(ms_today.year, ms_today.month, 1)
    /\ \A a \in 1..(ms_k - 1) :
          /\ ms_starts[a + 1].day = 1
          /\ ms_starts[a + 1].month \in 1..12
          /\ MonthIndex(ms_starts[a + 1]) = MonthIndex(ms_starts[a]) - 1
          /\ DateLT(ms_starts[a + 1], ms_starts[a])
          /\ ms_starts[a].month = 1 =>
                ms_starts[a + 1] = Date(ms_starts[a].year - 1, 12, 1)

\* The loop has iterations left while it runs, so the call ends within
\* HardCap iterations.
MonthsBounded == ms_pc = "loop" => ms_k <= HardCap

\* C11 as stated: for any date today the call returns a list; it never
\* ends in an exception, the list has at most 2400 entries, starts at the
\* first day of today's month and steps back one calendar month at a time.
C11_AnyTodayReturnsMonthStarts ==
    /\ ms_pc # "raised"
    /\ MonthsBounded
    /\ MonthsChain

\* C11 amended: for a today of year 201 or later the call returns a list of
\* exactly 2400 entries that starts at the first day of today's month and
\* steps back one calendar month at a time; for a today of year 200 or
\* earlier it raises ValueError and returns nothing, the entries appended
\* until then being in that same order.
C11_MonthStartsFromYear201 ==
    /\ MonthsBounded
    /\ MonthsChain
    /\ ms_pc = "returned" => ms_k = HardCap /\ ms_error = NoError
    /\ ms_today.year >= HardCap \div 12 + MinYear => ms_pc # "raised"
    /\ ms_today.year < HardCap \div 12 + MinYear => ms_pc # "returned"
    /\ ms_pc = "raised" =>
          /\ ms_error[1] = "ValueError"
          /\ ms_starts[ms_k] = Date(MinYear, 1, 1)

\* C11 witness: a call with a day in the middle of a month has returned its
\* 2400 entries, the list having crossed from a January to the December of
\* the year before.
C11_Witness ==
    /\ ms_pc = "returned" /\ ms_today.day # 1 /\ Len(ms_starts) = HardCap
    /\ \E a \in 1..(Len(ms_starts) - 1) :
          /\ ms_starts[a].month = 1
          /\ ms_starts[a + 1] = Date(ms_starts[a].year - 1, 12, 1)
====
